---- MODULE Spec2Model ----
(***************************************************************************)
(* A model of image-gen-mcp.  Of the client (src/image_gen_mcp/client.py): *)
(* the request encoder, the response decoder, the transport's error        *)
(* mapping, the sequential generate() loop, generate_prompt_variations()   *)
(* and the lifecycle of the lazily created HTTP handle.  Of the server     *)
(* (src/image_gen_mcp/server.py): the validation of the three tools, the   *)
(* file names they derive from the prompt, and save_image.                 *)
(*                                                                         *)
(* JSON objects are records: a key is present iff it is in the record's    *)
(* DOMAIN, and dict.get(k, default) is Get.  Text whose characters matter  *)
(* (MIME types, prompts, file names) is a sequence of one-character        *)
(* strings.  Base64 text is a sequence of alphabet indices 0..63, with     *)
(* PadChar for '=' and OtherChar for a character outside the alphabet.  A  *)
(* Python call ends in a record [kind |-> "return", ...] or                *)
(* [kind |-> "raise", ...].                                                *)
(***************************************************************************)
EXTENDS Integers, Sequences, FiniteSets, TLC

----------------------------------------------------------------------------
(* Bounds of the model. *)

\* generate() is called with num_images in 0..MaxImages
MaxImages == 3
\* a reference list holds at most MaxRefs buffers
MaxRefs == 2
\* generate_prompt_variations() is called with count in 1..MaxCount
MaxCount == 2
\* the HTTP handle is created at most MaxCreated times in one run
MaxCreated == 2
\* a decoder input holds at most MaxCandidates candidates ...
MaxCandidates == 2
\* ... and at most MaxParts parts in all
MaxParts == 2
\* the tools save at most MaxFiles files in one run
MaxFiles == 3

----------------------------------------------------------------------------
(* Python values. *)

\* The empty dict {} (a record with no field).
EmptyDict == <<>>

\* dict.get(k, default)
Get(d, k, default) == IF k \in DOMAIN d THEN d[k] ELSE default

\* Truth value of a dict, a list or a str: non-empty.
Truthy(v) == DOMAIN v # {}

\* An optional value: None, or Some(v).
None == [some |-> FALSE]

Some(v) == [some |-> TRUE, value |-> v]

\* str.startswith
StartsWith(s, prefix) ==
    /\ Len(s) >= Len(prefix)
    /\ SubSeq(s, 1, Len(prefix)) = prefix

\* The outcome of a call: a returned value or a raised exception.
Return(v) == [kind |-> "return", value |-> v]

\* status_code is {} for None and {n} for the integer n.
Raise(exc, message, status_code) ==
    [kind |-> "raise", exc |-> exc, message |-> message, status_code |-> status_code]

\* ImageGenError(message, status_code=None)
ImageGenError(message, status_code) == Raise("ImageGenError", message, status_code)

----------------------------------------------------------------------------
(* base64 (RFC 4648), as base64.b64encode and base64.b64decode compute it. *)

\* '=' in base64 text
PadChar == 64

\* a character outside the base64 alphabet
OtherChar == 65

RECURSIVE b64encode(_)
\* base64.b64encode(img_bytes).decode("utf-8")
b64encode(bytes) ==
    IF Len(bytes) = 0 THEN <<>>
    ELSE IF Len(bytes) = 1 THEN
        LET n == bytes[1] * 65536
        IN  <<n \div 262144, (n \div 4096) % 64, PadChar, PadChar>>
    ELSE IF Len(bytes) = 2 THEN
        LET n == bytes[1] * 65536 + bytes[2] * 256
        IN  <<n \div 262144, (n \div 4096) % 64, (n \div 64) % 64, PadChar>>
    ELSE
        LET n == bytes[1] * 65536 + bytes[2] * 256 + bytes[3]
        IN  <<n \div 262144, (n \div 4096) % 64, (n \div 64) % 64, n % 64>>
            \o b64encode(SubSeq(bytes, 4, Len(bytes)))

RECURSIVE a2b_base64(_, _, _, _, _)
\* binascii.a2b_base64 in its default (non-strict) mode, which b64decode
\* calls: characters outside the alphabet are skipped, a pad sequence that
\* completes a quad ends the scan, and an incomplete quad at the end of the
\* text is an error (binascii.Error).
a2b_base64(text, quad_pos, leftchar, pads, out) ==
    IF Len(text) = 0 THEN
        IF quad_pos # 0 THEN Raise("binascii.Error", "Incorrect padding", {})
        ELSE Return(out)
    ELSE
        LET ch == Head(text)
            rest == Tail(text)
        IN  IF ch = PadChar THEN
                IF quad_pos >= 2 /\ quad_pos + pads + 1 >= 4 THEN Return(out)
                ELSE a2b_base64(rest, quad_pos, leftchar,
                                IF quad_pos >= 2 THEN pads + 1 ELSE pads, out)
            ELSE IF ch >= 64 THEN a2b_base64(rest, quad_pos, leftchar, pads, out)
            ELSE IF quad_pos = 0 THEN a2b_base64(rest, 1, ch, 0, out)
            ELSE IF quad_pos = 1 THEN
                a2b_base64(rest, 2, ch % 16, 0,
                           Append(out, (leftchar * 4 + ch \div 16) % 256))
            ELSE IF quad_pos = 2 THEN
                a2b_base64(rest, 3, ch % 4, 0,
                           Append(out, (leftchar * 16 + ch \div 4) % 256))
            ELSE a2b_base64(rest, 0, 0, 0,
                            Append(out, (leftchar * 64 + ch) % 256))

\* base64.b64decode(image_b64)
b64decode(text) == a2b_base64(text, 0, 0, 0, <<>>)

----------------------------------------------------------------------------
(* Request encoder. *)

\* "image/jpeg", the MIME type the encoder tags every reference image with
MimeJpeg == <<"i", "m", "a", "g", "e", "/", "j", "p", "e", "g">>

\* "application/octet-stream"
MimeOctetStream ==
    <<"a", "p", "p", "l", "i", "c", "a", "t", "i", "o", "n", "/",
      "o", "c", "t", "e", "t", "-", "s", "t", "r", "e", "a", "m">>

\* Mutation: the reference images are tagged as plain binary data.
InlinePartsOctetStream(reference_images) ==
    [i \in 1..Len(reference_images) |->
        [inlineData |-> [mimeType |-> MimeOctetStream,
                         data |-> b64encode(reference_images[i])]]]

\* The inline-data parts of the reference images, in input order.
InlineParts(reference_images) ==
    [i \in 1..Len(reference_images) |->
        [inlineData |-> [mimeType |-> MimeJpeg,
                         data |-> b64encode(reference_images[i])]]]

\* Mutation: the text part is put before the images.
BuildTextFirst(prompt, aspect_ratio, size, reference_images) ==
    [contents |-> <<[parts |->
            <<[text |-> prompt]>> \o
            (IF reference_images.some /\ Truthy(reference_images.value)
                THEN InlineParts(reference_images.value) ELSE <<>>)]>>,
     generationConfig |->
        [responseModalities |-> <<"TEXT", "IMAGE">>,
         imageConfig |-> [aspectRatio |-> aspect_ratio, imageSize |-> size]]]

\* ImageGenClient._build_request_body; reference_images is None or Some(list)
_build_request_body(prompt, aspect_ratio, size, reference_images) ==
    [contents |-> <<[parts |->
            (IF reference_images.some /\ Truthy(reference_images.value)
                THEN InlineParts(reference_images.value) ELSE <<>>)
            \o <<[text |-> prompt]>>]>>,
     generationConfig |->
        [responseModalities |-> <<"TEXT", "IMAGE">>,
         imageConfig |-> [aspectRatio |-> aspect_ratio, imageSize |-> size]]]

----------------------------------------------------------------------------
(* Response decoder. *)

\* "image/": the prefix an image part's MIME type starts with
ImagePrefix == <<"i", "m", "a", "g", "e", "/">>

RECURSIVE ScanPartsPrepend(_, _)
\* Mutation: an image is put at the front of the list.
ScanPartsPrepend(parts, images) ==
    IF Len(parts) = 0 THEN Return(images)
    ELSE
        LET part == Head(parts)
            inline_data == Get(part, "inlineData", EmptyDict)
            mime_type == Get(inline_data, "mimeType", <<>>)
            image_b64 == Get(inline_data, "data", <<>>)
            image_bytes == b64decode(image_b64)
        IN  IF Truthy(inline_data) /\ StartsWith(mime_type, ImagePrefix)
               /\ Truthy(image_b64)
            THEN IF image_bytes.kind = "raise" THEN image_bytes
                 ELSE ScanPartsPrepend(Tail(parts), <<image_bytes.value>> \o images)
            ELSE ScanPartsPrepend(Tail(parts), images)

RECURSIVE ScanParts(_, _)
\* The loop over one candidate's parts: the outcome is the images list
\* extended by the image parts, or the exception b64decode raised.
ScanParts(parts, images) ==
    IF Len(parts) = 0 THEN Return(images)
    ELSE
        LET part == Head(parts)
            inline_data == Get(part, "inlineData", EmptyDict)
            mime_type == Get(inline_data, "mimeType", <<>>)
            image_b64 == Get(inline_data, "data", <<>>)
            image_bytes == b64decode(image_b64)
        IN  IF Truthy(inline_data) /\ StartsWith(mime_type, ImagePrefix)
               /\ Truthy(image_b64)
            THEN IF image_bytes.kind = "raise" THEN image_bytes
                 ELSE ScanParts(Tail(parts), Append(images, image_bytes.value))
            ELSE ScanParts(Tail(parts), images)

RECURSIVE ScanCandidates(_, _)
\* The loop over the candidates.
ScanCandidates(candidates, images) ==
    IF Len(candidates) = 0 THEN Return(images)
    ELSE
        LET content == Get(Head(candidates), "content", EmptyDict)
            parts == Get(content, "parts", <<>>)
            scanned == ScanParts(parts, images)
        IN  IF scanned.kind = "raise" THEN scanned
            ELSE ScanCandidates(Tail(candidates), scanned.value)

\* Mutation: a response without images is an empty success.
ExtractAllowEmpty(response_data) ==
    LET candidates == Get(response_data, "candidates", <<>>)
    IN  IF ~Truthy(candidates)
        THEN ImageGenError("No candidates in API response", {})
        ELSE ScanCandidates(candidates, <<>>)

\* ImageGenClient._extract_images
_extract_images(response_data) ==
    LET candidates == Get(response_data, "candidates", <<>>)
        images == ScanCandidates(candidates, <<>>)
    IN  IF ~Truthy(candidates)
        THEN ImageGenError("No candidates in API response", {})
        ELSE IF images.kind = "raise" THEN images
        ELSE IF ~Truthy(images.value)
        THEN ImageGenError("No images found in API response", {})
        ELSE images

----------------------------------------------------------------------------
(* Transport: what an awaited client.post(...) can end in, and how          *)
(* _single_generate and generate_prompt_variations map it.                  *)

\* httpx.TimeoutException is raised
TimedOut == [kind |-> "TimeoutException"]

\* another httpx.RequestError is raised
RequestFailed == [kind |-> "RequestError"]

\* A response arrived: its status code, and what response.json() gives
\* (None when the body is not JSON and json() raises).
Response(status_code, json) ==
    [kind |-> "response", status_code |-> status_code, json |-> json]

\* Mutation: a 401 is reported like any other HTTP error.
GenerationNo401(outcome) ==
    IF outcome.kind = "TimeoutException"
    THEN ImageGenError("Request timed out", {})
    ELSE IF outcome.kind = "RequestError"
    THEN ImageGenError("Network error", {})
    ELSE IF outcome.status_code = 429
    THEN ImageGenError("Rate limit exceeded", {429})
    ELSE IF outcome.status_code >= 400
    THEN ImageGenError("API error", {outcome.status_code})
    ELSE LET images == IF outcome.json.some
                       THEN _extract_images(outcome.json.value)
                       ELSE Raise("JSONDecodeError", "response.json()", {})
         IN  IF images.kind = "raise"
             THEN ImageGenError("Failed to parse API response", {})
             ELSE Return(images.value[1])

\* ImageGenClient._single_generate from the end of `await client.post(...)`:
\* the image returned or the ImageGenError raised.  The error's message is
\* its fixed text; the interpolated detail is left out.
SingleGenerateOutcome(outcome) ==
    IF outcome.kind = "TimeoutException"
    THEN ImageGenError("Request timed out", {})
    ELSE IF outcome.kind = "RequestError"
    THEN ImageGenError("Network error", {})
    ELSE IF outcome.status_code = 401
    THEN ImageGenError("Invalid API key", {401})
    ELSE IF outcome.status_code = 429
    THEN ImageGenError("Rate limit exceeded", {429})
    ELSE IF outcome.status_code >= 400
    THEN ImageGenError("API error", {outcome.status_code})
    ELSE LET images == IF outcome.json.some
                       THEN _extract_images(outcome.json.value)
                       ELSE Raise("JSONDecodeError", "response.json()", {})
         IN  IF images.kind = "raise"
             THEN ImageGenError("Failed to parse API response", {})
             ELSE Return(images.value[1])

\* The text of a JSON document holding the value v, and a text that is not
\* JSON.  json.loads gives v back for the first and raises for the second.
JsonText(v) == [is_json |-> TRUE, value |-> v]

NotJson == [is_json |-> FALSE]

\* A JSON null where a text is expected: json.loads(None) raises TypeError.
JsonNull == [is_null |-> TRUE]

\* A parsed JSON object and a parsed JSON array.
JObject(fields) == [type |-> "object", fields |-> fields]

JArray(items) == [type |-> "array", items |-> items]

\* data["choices"][0]["message"]["content"] followed by json.loads(content)
\* and parsed.get("variations", []): the variations list, or the exception
\* the lookup raises.
ChatVariations(data) ==
    IF "choices" \notin DOMAIN data
    THEN Raise("KeyError", "choices", {})
    ELSE IF Len(data.choices) = 0
    THEN Raise("IndexError", "list index out of range", {})
    ELSE IF "message" \notin DOMAIN data.choices[1]
    THEN Raise("KeyError", "message", {})
    ELSE IF "content" \notin DOMAIN data.choices[1].message
    THEN Raise("KeyError", "content", {})
    ELSE LET content == data.choices[1].message.content
         IN  IF content = JsonNull
             THEN Raise("TypeError", "json.loads(content)", {})
             ELSE IF ~content.is_json
             THEN Raise("JSONDecodeError", "json.loads(content)", {})
             ELSE IF content.value.type # "object"
             THEN Raise("AttributeError", "get", {})
             ELSE Return(Get(content.value.fields, "variations", <<>>))

\* Mutation: the length of the variations list is not checked.
VariationsNoCountCheck(count, outcome) ==
    IF outcome.kind = "TimeoutException"
    THEN ImageGenError("Prompt variation request timed out", {})
    ELSE IF outcome.kind = "RequestError"
    THEN ImageGenError("Network error during prompt variation", {})
    ELSE IF outcome.status_code >= 400
    THEN ImageGenError("LLM API error", {outcome.status_code})
    ELSE LET variations == IF outcome.json.some
                           THEN ChatVariations(outcome.json.value)
                           ELSE Raise("JSONDecodeError", "response.json()", {})
         IN  IF variations.kind = "raise"
             THEN IF variations.exc \in {"KeyError", "JSONDecodeError"}
                  THEN ImageGenError("Failed to parse LLM response", {})
                  ELSE variations
             ELSE Return(variations.value)

\* ImageGenClient.generate_prompt_variations from the end of
\* `await client.post(...)`: the list returned or the exception raised.
\* Only KeyError and json.JSONDecodeError are turned into ImageGenError.
PromptVariationsOutcome(count, outcome) ==
    IF outcome.kind = "TimeoutException"
    THEN ImageGenError("Prompt variation request timed out", {})
    ELSE IF outcome.kind = "RequestError"
    THEN ImageGenError("Network error during prompt variation", {})
    ELSE IF outcome.status_code >= 400
    THEN ImageGenError("LLM API error", {outcome.status_code})
    ELSE LET variations == IF outcome.json.some
                           THEN ChatVariations(outcome.json.value)
                           ELSE Raise("JSONDecodeError", "response.json()", {})
         IN  IF variations.kind = "raise"
             THEN IF variations.exc \in {"KeyError", "JSONDecodeError"}
                  THEN ImageGenError("Failed to parse LLM response", {})
                  ELSE variations
             ELSE IF Len(variations.value) # count
             THEN ImageGenError("Expected count variations", {})
             ELSE Return(variations.value)

\* The body of the chat request.  diversity is in tenths; the temperature
\* 0.7 + diversity * 0.3 is in thousandths.
ChatBody(base_prompt, count, diversity) ==
    [model |-> "gpt-4o-mini",
     messages |->
        <<[role |-> "system",
           content |-> [diversity |-> diversity, count |-> count]],
          [role |-> "user", content |-> base_prompt]>>,
     response_format |-> [type |-> "json_object"],
     temperature |-> 700 + diversity * 30]

----------------------------------------------------------------------------
(* The client: state. *)

VARIABLES
    _client,    \* ImageGenClient._client: None, or Some(h) for the h-th handle
    created,    \* history: how many httpx.AsyncClient were constructed
    aclosed,    \* history: aclosed[h] is how often aclose() ran on handle h
    pc,         \* where the running coroutine is: "idle" (no call runs),
                \* "generate" (head of generate's loop), "post_generation"
                \* and "post_chat" (suspended in `await client.post`)
    frame,      \* arguments and locals of the running call
    request,    \* the request in flight: None or Some(request)
    sent,       \* history: the requests of the current (or last) call, each
                \* with its handle and "pending", "ok" or "failed"
    result,     \* None while a call runs, else Some(what the last call did)
    codec,      \* the encoder and the decoder run on their own: the stage
                \* reached, the input, the request body, the response
                \* document, the decoder's outcome and the outcome of
                \* _single_generate for that document
    instance,   \* server.py's global _client: None, or Some("ImageGenClient")
                \* once get_client() constructed the client
    tool,       \* the tool invocation that runs, or the last one that ended
    files       \* the output directory: files[name] is the content of the
                \* file called name

vars ==
    <<_client, created, aclosed, pc, frame, request, sent, result, codec,
      instance, tool, files>>

\* The variables of the server.
server_vars == <<instance, tool, files>>

\* The variables of the client.
client_vars == <<_client, created, aclosed, pc, frame, request, sent, result>>

\* ImageGenClient.TIMEOUT, and the timeout of the chat call
TIMEOUT == 120

CHAT_TIMEOUT == 30

\* No call is running.
NoFrame == EmptyDict

\* ImageGenClient.__init__, before any call
ClientInit ==
    /\ _client = None
    /\ created = 0
    /\ aclosed = <<>>
    /\ pc = "idle"
    /\ frame = NoFrame
    /\ request = None
    /\ sent = <<>>
    /\ result = None

\* The encoder and the decoder are not run on their own.
CodecOff ==
    [stage |-> "off", input |-> EmptyDict, body |-> EmptyDict,
     response_data |-> EmptyDict, decoded |-> None, image |-> None]

\* No tool was invoked yet.
NoTool == [stage |-> "none"]

\* The server before any tool invocation, with an empty output directory.
ServerOff ==
    /\ instance = None
    /\ tool = NoTool
    /\ files = <<>>

Init == ClientInit /\ codec = CodecOff /\ ServerOff

----------------------------------------------------------------------------
(* Inputs of the calls and answers of the backend. *)

\* "a red fox" and "a blue bird"
RedFox == <<"a", " ", "r", "e", "d", " ", "f", "o", "x">>

BlueBird == <<"a", " ", "b", "l", "u", "e", " ", "b", "i", "r", "d">>

Prompts == {RedFox, BlueBird}

\* Values of num_images: the documented ones (from 1) and 0, which
\* generate() accepts as well.
NumImages == 0..MaxImages

Formats ==
    {[aspect_ratio |-> "1:1", size |-> "2K"],
     [aspect_ratio |-> "16:9", size |-> "4K"]}

\* The prompt and the format of the calls of generate().
GenerateStyles ==
    {[prompt |-> RedFox, aspect_ratio |-> "1:1", size |-> "2K"],
     [prompt |-> BlueBird, aspect_ratio |-> "16:9", size |-> "4K"]}

\* Lists of at most n elements of S.
ListsUpTo(S, n) == UNION {[1..k -> S] : k \in 0..n}

\* Reference images a call of generate() is given: buffers of 0 and 1 bytes.
ClientBuffers == {<<>>, <<77>>}

ReferenceChoices == {None} \cup {Some(l) : l \in ListsUpTo(ClientBuffers, MaxRefs)}

\* "done", the text of a text part of a response
TextDone == <<"d", "o", "n", "e">>

\* Two images the backend generates.
ImageA == <<255, 216, 255>>

ImageB == <<137, 80>>

MimePng == <<"i", "m", "a", "g", "e", "/", "p", "n", "g">>

MimeText == <<"t", "e", "x", "t", "/", "p", "l", "a", "i", "n">>

ImagePart(mime_type, bytes) ==
    [inlineData |-> [mimeType |-> mime_type, data |-> b64encode(bytes)]]

OneCandidate(parts) == [candidates |-> <<[content |-> [parts |-> parts]]>>]

\* What response.json() can give for a generation response to the request
\* body `json`: nothing (the body is not JSON), or one of these documents.
GenerationBodies(json) ==
    {None,
     Some(EmptyDict),
     Some([candidates |-> <<>>]),
     Some(OneCandidate(<<[text |-> TextDone]>>)),
     Some(OneCandidate(<<ImagePart(MimeText, ImageA)>>)),
     Some(OneCandidate(<<[inlineData |-> [mimeType |-> MimeJpeg, data |-> <<19, 16>>]]>>)),
     Some(OneCandidate(<<ImagePart(MimeJpeg, ImageA)>>)),
     Some(OneCandidate(<<[text |-> TextDone], ImagePart(MimePng, ImageB),
                         ImagePart(MimeJpeg, ImageA)>>)),
     Some([candidates |-> <<[content |-> json.contents[1]]>>])}

\* HTTP status codes of the backend's responses.
Statuses == {200, 302, 400, 401, 403, 429, 500}

\* What the awaited post of a generation request can end in.
GenerationOutcomes(json) ==
    {TimedOut, RequestFailed}
    \cup {Response(s, None) : s \in Statuses \ {200}}
    \cup {Response(200, j) : j \in GenerationBodies(json)}

\* Variation lists the chat backend answers with.
VariationLists == ListsUpTo({"v1", "v2"}, MaxCount + 1)

ChatContent(content) == [choices |-> <<[message |-> [content |-> content]]>>]

\* What response.json() can give for a chat response.
ChatBodies ==
    {None,
     Some(EmptyDict),
     Some([choices |-> <<>>]),
     Some([choices |-> <<EmptyDict>>]),
     Some([choices |-> <<[message |-> EmptyDict]>>]),
     Some(ChatContent(NotJson)),
     Some(ChatContent(JsonNull)),
     Some(ChatContent(JsonText(JArray(<<"v1">>)))),
     Some(ChatContent(JsonText(JObject(EmptyDict))))}
    \cup {Some(ChatContent(JsonText(JObject([variations |-> vs])))) :
            vs \in VariationLists}

\* What the awaited post of the chat request can end in.
ChatOutcomes ==
    {TimedOut, RequestFailed}
    \cup {Response(s, None) : s \in Statuses \ {200}}
    \cup {Response(200, j) : j \in ChatBodies}

----------------------------------------------------------------------------
(* The client: operations. *)

\* Mutation: a new handle is constructed on every use.
GetClientAlwaysNew == [handle |-> created + 1, created |-> created + 1]

\* ImageGenClient._get_client: the handle to use, and the number of handles
\* constructed once it returned.
_get_client ==
    IF _client = None
    THEN [handle |-> created + 1, created |-> created + 1]
    ELSE [handle |-> _client.value, created |-> created]

\* The effect of `client = await self._get_client()` on the handle state.
UseClient(got) ==
    /\ _client' = Some(got.handle)
    /\ created' = got.created
    /\ aclosed' = IF got.created > created THEN Append(aclosed, 0) ELSE aclosed

\* No new handle can be needed beyond the bound of the model.
CanGetClient == _client # None \/ created < MaxCreated

\* The arguments of the running call.
CallOf(f) ==
    IF f.op = "generate"
    THEN [op |-> f.op, prompt |-> f.prompt, aspect_ratio |-> f.aspect_ratio,
          size |-> f.size, num_images |-> f.num_images,
          reference_images |-> f.reference_images]
    ELSE [op |-> f.op, base_prompt |-> f.base_prompt, count |-> f.count,
          diversity |-> f.diversity]

\* The last request of the log is marked as completed.
Completed(log, state) == [log EXCEPT ![Len(log)].state = state]

\* generate() is called: images = [] and the loop is entered.  This is the
\* effect on the client, whoever the caller is.
GenerateCall(prompt, aspect_ratio, size, num_images, reference_images) ==
    /\ pc = "idle"
    /\ num_images > 0 => CanGetClient
    /\ pc' = "generate"
    /\ frame' = [op |-> "generate", prompt |-> prompt,
                 aspect_ratio |-> aspect_ratio, size |-> size,
                 num_images |-> num_images,
                 reference_images |-> reference_images,
                 images |-> <<>>, i |-> 0]
    /\ sent' = <<>>
    /\ result' = None
    /\ UNCHANGED <<_client, created, aclosed, request>>

\* generate() is called on the client directly.
Generate(prompt, aspect_ratio, size, num_images, reference_images) ==
    /\ GenerateCall(prompt, aspect_ratio, size, num_images, reference_images)
    /\ UNCHANGED <<codec, server_vars>>

\* One more iteration of `for _ in range(num_images)`: _single_generate up
\* to its `await client.post(...)`.
SingleGenerate ==
    /\ pc = "generate"
    /\ frame.i < frame.num_images
    /\ LET got == _get_client
           body == _build_request_body(frame.prompt, frame.aspect_ratio,
                                       frame.size, frame.reference_images)
       IN  /\ UseClient(got)
           /\ request' = Some([handle |-> got.handle, url |-> "ENDPOINT",
                               json |-> body, timeout |-> TIMEOUT])
           /\ sent' = Append(sent, [handle |-> got.handle, url |-> "ENDPOINT",
                                 state |-> "pending"])
    /\ frame' = [frame EXCEPT !.i = @ + 1]
    /\ pc' = "post_generation"
    /\ UNCHANGED result
    /\ UNCHANGED <<codec, server_vars>>

\* Mutation: `return images` is inside the loop and ends it after the first
\* iteration.
GenerateReturnInLoop ==
    /\ pc = "generate"
    /\ ~(frame.i < frame.num_images) \/ frame.i >= 1
    /\ result' = Some([call |-> CallOf(frame), outcome |-> Return(frame.images)])
    /\ pc' = "idle"
    /\ frame' = NoFrame
    /\ UNCHANGED <<_client, created, aclosed, request, sent>>
    /\ UNCHANGED <<codec, server_vars>>

\* The loop is over: `return images`.
GenerateReturn ==
    /\ pc = "generate"
    /\ ~(frame.i < frame.num_images)
    /\ result' = Some([call |-> CallOf(frame), outcome |-> Return(frame.images)])
    /\ pc' = "idle"
    /\ frame' = NoFrame
    /\ UNCHANGED <<_client, created, aclosed, request, sent>>
    /\ UNCHANGED <<codec, server_vars>>

\* Mutation: a failed request is skipped and the loop goes on.
PostGenerationSkipFailure ==
    /\ pc = "post_generation"
    /\ \E outcome \in GenerationOutcomes(request.value.json) :
        /\ LET image == SingleGenerateOutcome(outcome)
           IN  /\ frame' = IF image.kind = "return"
                           THEN [frame EXCEPT !.images = Append(@, image.value)]
                           ELSE frame
               /\ sent' = Completed(sent, IF image.kind = "return" THEN "ok" ELSE "failed")
        /\ pc' = "generate"
        /\ request' = None
        /\ UNCHANGED <<_client, created, aclosed, result>>
    /\ UNCHANGED <<codec, server_vars>>

\* The awaited post of a generation request ends in `outcome`: the rest of
\* _single_generate, then `images.append(image)` in generate, or the
\* exception leaving generate.
PostGenerationDone ==
    /\ pc = "post_generation"
    /\ \E outcome \in GenerationOutcomes(request.value.json) :
        /\ LET image == SingleGenerateOutcome(outcome)
           IN  IF image.kind = "return"
               THEN /\ frame' = [frame EXCEPT !.images = Append(@, image.value)]
                    /\ sent' = Completed(sent, "ok")
                    /\ pc' = "generate"
                    /\ UNCHANGED result
               ELSE /\ result' = Some([call |-> CallOf(frame), transport |-> outcome,
                                       outcome |-> image])
                    /\ sent' = Completed(sent, "failed")
                    /\ pc' = "idle"
                    /\ frame' = NoFrame
        /\ request' = None
        /\ UNCHANGED <<_client, created, aclosed>>
    /\ UNCHANGED <<codec, server_vars>>

\* generate_prompt_variations() is called: it runs up to its
\* `await client.post(...)`.
GeneratePromptVariations(base_prompt, count, diversity) ==
    /\ pc = "idle"
    /\ CanGetClient
    /\ LET got == _get_client
       IN  /\ UseClient(got)
           /\ request' = Some([handle |-> got.handle, url |-> "CHAT_ENDPOINT",
                               json |-> ChatBody(base_prompt, count, diversity),
                               timeout |-> CHAT_TIMEOUT])
           /\ sent' = <<[handle |-> got.handle, url |-> "CHAT_ENDPOINT",
                        state |-> "pending"]>>
    /\ frame' = [op |-> "generate_prompt_variations", base_prompt |-> base_prompt,
                 count |-> count, diversity |-> diversity]
    /\ pc' = "post_chat"
    /\ result' = None
    /\ UNCHANGED <<codec, server_vars>>

\* The awaited post of the chat request ends in `outcome`: the rest of
\* generate_prompt_variations.
PostChatDone(outcome) ==
    /\ pc = "post_chat"
    /\ outcome \in ChatOutcomes
    /\ LET variations == PromptVariationsOutcome(frame.count, outcome)
       IN  /\ result' = Some([call |-> CallOf(frame), transport |-> outcome,
                              outcome |-> variations])
           /\ sent' = Completed(sent, IF variations.kind = "return"
                                      THEN "ok" ELSE "failed")
    /\ pc' = "idle"
    /\ frame' = NoFrame
    /\ request' = None
    /\ UNCHANGED <<_client, created, aclosed>>
    /\ UNCHANGED <<codec, server_vars>>

\* Whether the last completed call was close().
AfterClose == result # None /\ result.value.call.op = "close"

\* Mutation: the handle is closed but still held afterwards.
CloseKeepsHandle ==
    /\ pc = "idle"
    /\ IF _client # None
       THEN /\ aclosed' = [aclosed EXCEPT ![_client.value] = @ + 1]
            /\ result' = Some([call |-> [op |-> "close"], after_close |-> AfterClose,
                               released |-> {_client.value}])
       ELSE /\ result' = Some([call |-> [op |-> "close"], after_close |-> AfterClose,
                               released |-> {}])
            /\ UNCHANGED aclosed
    /\ UNCHANGED <<_client, created, pc, frame, request, sent>>
    /\ UNCHANGED <<codec, server_vars>>

\* ImageGenClient.close.  The result records which handle aclose() ran on
\* and whether the call before this one was close() too.
Close ==
    /\ pc = "idle"
    /\ IF _client # None
       THEN /\ aclosed' = [aclosed EXCEPT ![_client.value] = @ + 1]
            /\ _client' = None
            /\ result' = Some([call |-> [op |-> "close"], after_close |-> AfterClose,
                               released |-> {_client.value}])
       ELSE /\ result' = Some([call |-> [op |-> "close"], after_close |-> AfterClose,
                               released |-> {}])
            /\ UNCHANGED <<_client, aclosed>>
    /\ UNCHANGED <<created, pc, frame, request, sent>>
    /\ UNCHANGED <<codec, server_vars>>

Next ==
    \/ \E style \in GenerateStyles, num_images \in NumImages,
          reference_images \in ReferenceChoices :
            Generate(style.prompt, style.aspect_ratio, style.size, num_images,
                     reference_images)
    \/ SingleGenerate
    \/ GenerateReturn
    \/ PostGenerationDone
    \/ \E base_prompt \in Prompts, count \in 1..MaxCount, diversity \in {0, 5, 10} :
            GeneratePromptVariations(base_prompt, count, diversity)
    \/ \E outcome \in ChatOutcomes : PostChatDone(outcome)
    \/ Close

Spec == Init /\ [][Next]_vars

----------------------------------------------------------------------------
(* The encoder and the decoder on their own: the inputs are drawn in       *)
(* CodecInit, the backend builds a response document part by part or       *)
(* echoes the content block of the request, and the decoder is applied.    *)

\* Reference images of 0, 1, 2, 3 and 4 bytes.
Buffers == {<<>>, <<77>>, <<0, 255>>, <<255, 77, 0>>, <<137, 80, 78, 71>>}

\* The inputs of _build_request_body.
EncoderInputs ==
    {[prompt |-> prompt, aspect_ratio |-> format.aspect_ratio,
      size |-> format.size, reference_images |-> reference_images] :
        prompt \in Prompts, format \in Formats,
        reference_images \in {None} \cup
            {Some(l) : l \in ListsUpTo(Buffers, MaxRefs)}}

\* "image" is no MIME type that starts with "image/".
MimeNoSlash == <<"i", "m", "a", "g", "e">>

\* The parts the backend puts in a response: text, inline data without
\* content, without MIME type, without data, with empty data, with text
\* that is not base64, with a character outside the alphabet, and images.
ResponseParts ==
    {[text |-> TextDone],
     [inlineData |-> EmptyDict],
     [inlineData |-> [data |-> b64encode(ImageA)]],
     [inlineData |-> [mimeType |-> MimePng]],
     [inlineData |-> [mimeType |-> MimePng, data |-> <<>>]],
     [inlineData |-> [mimeType |-> MimePng, data |-> <<19, 16>>]],
     [inlineData |-> [mimeType |-> MimePng, data |-> <<19, OtherChar, 16, PadChar, PadChar>>]],
     ImagePart(MimeText, ImageA),
     ImagePart(MimeNoSlash, ImageA),
     ImagePart(MimeJpeg, ImageA),
     ImagePart(MimePng, ImageB)}

\* The candidates the backend starts: without content, without parts, and
\* with an empty parts list.
ResponseCandidates == {EmptyDict, [content |-> EmptyDict], [content |-> [parts |-> <<>>]]}

\* The parts of all candidates of a response document, in order.
RECURSIVE PartsOf(_)
PartsOf(candidates) ==
    IF Len(candidates) = 0 THEN <<>>
    ELSE Get(Get(Head(candidates), "content", EmptyDict), "parts", <<>>)
         \o PartsOf(Tail(candidates))

CodecInit ==
    /\ ClientInit
    /\ codec \in
        {[CodecOff EXCEPT !.stage = "input", !.input = input] : input \in EncoderInputs}
        \cup {[CodecOff EXCEPT !.stage = "response", !.response_data = r] :
                r \in {EmptyDict, [candidates |-> <<>>]}}
    /\ ServerOff

\* _build_request_body is applied to the input.
CodecEncode ==
    /\ codec.stage = "input"
    /\ codec' = [codec EXCEPT
            !.stage = "encoded",
            !.body = _build_request_body(codec.input.prompt, codec.input.aspect_ratio,
                                         codec.input.size, codec.input.reference_images)]
    /\ UNCHANGED <<client_vars, server_vars>>

\* The backend answers with one candidate: the content block of the request.
CodecEcho ==
    /\ codec.stage = "encoded"
    /\ codec' = [codec EXCEPT
            !.stage = "response",
            !.response_data = [candidates |-> <<[content |-> codec.body.contents[1]]>>]]
    /\ UNCHANGED <<client_vars, server_vars>>

\* The backend starts one more candidate.
CodecAddCandidate(candidate) ==
    /\ codec.stage = "response"
    /\ codec.input = EmptyDict
    /\ "candidates" \in DOMAIN codec.response_data
    /\ Len(codec.response_data.candidates) < MaxCandidates
    /\ codec' = [codec EXCEPT !.response_data.candidates = Append(@, candidate)]
    /\ UNCHANGED <<client_vars, server_vars>>

\* The backend adds a part to the last candidate.
CodecAddPart(part) ==
    /\ codec.stage = "response"
    /\ codec.input = EmptyDict
    /\ "candidates" \in DOMAIN codec.response_data
    /\ LET candidates == codec.response_data.candidates
           n == Len(candidates)
       IN  /\ n > 0
           /\ "parts" \in DOMAIN Get(candidates[n], "content", EmptyDict)
           /\ Len(PartsOf(candidates)) < MaxParts
           /\ codec' = [codec EXCEPT
                !.response_data.candidates[n].content.parts = Append(@, part)]
    /\ UNCHANGED <<client_vars, server_vars>>

\* _extract_images is applied to the response document.
CodecDecode ==
    /\ codec.stage = "response"
    /\ codec' = [codec EXCEPT
            !.stage = "decoded",
            !.decoded = Some(_extract_images(codec.response_data))]
    /\ UNCHANGED <<client_vars, server_vars>>

\* _single_generate gets the response document with status 200: the rest of
\* _single_generate is applied to it.
CodecSingleGenerate ==
    /\ codec.stage = "decoded"
    /\ codec' = [codec EXCEPT
            !.stage = "generated",
            !.image = Some(SingleGenerateOutcome(
                            Response(200, Some(codec.response_data))))]
    /\ UNCHANGED <<client_vars, server_vars>>

CodecNext ==
    \/ CodecEncode
    \/ CodecEcho
    \/ \E candidate \in ResponseCandidates : CodecAddCandidate(candidate)
    \/ \E part \in ResponseParts : CodecAddPart(part)
    \/ CodecDecode
    \/ CodecSingleGenerate

CodecSpec == CodecInit /\ [][CodecNext]_vars

----------------------------------------------------------------------------
(* The server (src/image_gen_mcp/server.py): file names.  A file name, like *)
(* a prompt given to a tool, is a sequence of one-character strings.       *)

UpperCase ==
    <<
      "A", "B", "C", "D", "E", "F", "G", "H", "I", "J", "K", "L", "M", "N",
      "O", "P", "Q", "R", "S", "T", "U", "V", "W", "X", "Y", "Z"
    >>

LowerCase ==
    <<
      "a", "b", "c", "d", "e", "f", "g", "h", "i", "j", "k", "l", "m", "n",
      "o", "p", "q", "r", "s", "t", "u", "v", "w", "x", "y", "z"
    >>

Digits == <<"0", "1", "2", "3", "4", "5", "6", "7", "8", "9">>

\* The characters \s matches, and those str.split() splits at.
Whitespace == {" ", "\t", "\n"}

Range(seq) == {seq[i] : i \in DOMAIN seq}

\* str.lower(), one character
ToLower(c) ==
    IF c \in Range(UpperCase)
    THEN LowerCase[CHOOSE i \in DOMAIN UpperCase : UpperCase[i] = c]
    ELSE c

\* re.sub(r"[^a-zA-Z0-9\s]", " ", prompt.lower())
Cleaned(prompt) ==
    [i \in 1..Len(prompt) |->
        LET c == ToLower(prompt[i])
        IN  IF c \in Range(LowerCase) \cup Range(UpperCase) \cup Range(Digits)
                     \cup Whitespace
            THEN c ELSE " "]

RECURSIVE Split(_, _, _)
\* str.split(): the words of text between runs of whitespace; word is the
\* word being read and words are those read before it.
Split(text, word, words) ==
    IF Len(text) = 0
    THEN IF word = <<>> THEN words ELSE Append(words, word)
    ELSE IF Head(text) \in Whitespace
    THEN Split(Tail(text), <<>>, IF word = <<>> THEN words ELSE Append(words, word))
    ELSE Split(Tail(text), Append(word, Head(text)), words)

\* skip_words
SkipWords ==
    {<<"a">>, <<"a", "n">>, <<"t", "h", "e">>, <<"i", "n">>, <<"o", "n">>,
     <<"a", "t">>, <<"t", "o">>, <<"f", "o", "r">>, <<"o", "f">>,
     <<"w", "i", "t", "h">>, <<"a", "n", "d">>, <<"o", "r">>,
     <<"b", "u", "t">>, <<"i", "s">>, <<"a", "r", "e">>, <<"w", "a", "s">>,
     <<"w", "e", "r", "e">>, <<"b", "e">>, <<"b", "e", "e", "n">>,
     <<"b", "e", "i", "n", "g">>, <<"h", "a", "v", "e">>, <<"h", "a", "s">>,
     <<"h", "a", "d">>, <<"d", "o">>, <<"d", "o", "e", "s">>,
     <<"d", "i", "d">>, <<"w", "i", "l", "l">>, <<"w", "o", "u", "l", "d">>,
     <<"c", "o", "u", "l", "d">>, <<"s", "h", "o", "u", "l", "d">>,
     <<"m", "a", "y">>, <<"m", "i", "g", "h", "t">>, <<"m", "u", "s", "t">>,
     <<"s", "h", "a", "l", "l">>, <<"c", "a", "n">>, <<"v", "e", "r", "y">>,
     <<"r", "e", "a", "l", "l", "y">>, <<"j", "u", "s", "t">>,
     <<"a", "l", "s", "o">>, <<"t", "h", "a", "t">>, <<"t", "h", "i", "s">>,
     <<"s", "t", "y", "l", "e">>, <<"i", "m", "a", "g", "e">>,
     <<"p", "i", "c", "t", "u", "r", "e">>, <<"p", "h", "o", "t", "o">>,
     <<"p", "h", "o", "t", "o", "g", "r", "a", "p", "h">>,
     <<"i", "l", "l", "u", "s", "t", "r", "a", "t", "i", "o", "n">>}

\* The number of significant words kept, and of words kept when none is
\* significant.
MaxKeyWords == 5

MaxFallbackWords == 3

RECURSIVE KeyWords(_, _)
\* The loop that collects the significant words, up to its break.
KeyWords(words, key_words) ==
    IF Len(words) = 0 THEN key_words
    ELSE IF Head(words) \notin SkipWords /\ Len(Head(words)) > 1
    THEN IF Len(key_words) + 1 >= MaxKeyWords
         THEN Append(key_words, Head(words))
         ELSE KeyWords(Tail(words), Append(key_words, Head(words)))
    ELSE KeyWords(Tail(words), key_words)

RECURSIVE Join(_, _)
\* sep.join(words)
Join(sep, words) ==
    IF Len(words) = 0 THEN <<>>
    ELSE IF Len(words) = 1 THEN words[1]
    ELSE words[1] \o sep \o Join(sep, Tail(words))

\* datetime.now().strftime("%Y-%m-%d"): the day of the run
Today == <<"2", "0", "2", "6", "-", "0", "1", "-", "1", "9">>

DotJpg == <<".", "j", "p", "g">>

\* generate_filename_from_prompt(prompt, suffix="")
generate_filename_from_prompt(prompt) ==
    LET words == Split(Cleaned(prompt), <<>>, <<>>)
        significant == KeyWords(words, <<>>)
        key_words == IF significant = <<>>
                     THEN SubSeq(words, 1, IF Len(words) < MaxFallbackWords
                                           THEN Len(words) ELSE MaxFallbackWords)
                     ELSE significant
        name_part == IF key_words # <<>> THEN Join(<<"_">>, key_words)
                     ELSE <<"g", "e", "n", "e", "r", "a", "t", "e", "d">>
    IN  Today \o <<"_">> \o name_part \o DotJpg

RECURSIVE RemoveAll(_, _)
\* text.replace(old, ""), for a non-empty old
RemoveAll(text, old) ==
    IF Len(text) < Len(old) THEN text
    ELSE IF SubSeq(text, 1, Len(old)) = old
    THEN RemoveAll(SubSeq(text, Len(old) + 1, Len(text)), old)
    ELSE <<Head(text)>> \o RemoveAll(Tail(text), old)

\* PurePath.stem of a name without directories: the name up to its last
\* dot, when that dot is neither its first nor its last character.
Stem(name) ==
    LET dots == {i \in DOMAIN name : name[i] = "."}
        last == CHOOSE i \in dots : \A j \in dots : j <= i
    IN  IF dots # {} /\ last > 1 /\ last < Len(name)
        THEN SubSeq(name, 1, last - 1) ELSE name

RECURSIVE DecimalDigits(_)
\* str(n) for n >= 0, as f"{counter}" and f"{i}" format it
DecimalDigits(n) ==
    IF n < 10 THEN <<Digits[n + 1]>>
    ELSE DecimalDigits(n \div 10) \o <<Digits[(n % 10) + 1]>>

----------------------------------------------------------------------------
(* The server: saving an image. *)

\* Path.write_bytes: the directory once `name` holds `bytes`.
WriteBytes(directory, name, bytes) ==
    [n \in DOMAIN directory \cup {name} |-> IF n = name THEN bytes ELSE directory[n]]

RECURSIVE FreePath(_, _, _, _)
\* The loop `while filepath.exists()` of save_image, from `filepath` and
\* `counter` on: the path the loop ends with.
FreePath(directory, filepath, original_stem, counter) ==
    IF filepath \in DOMAIN directory
    THEN FreePath(directory,
                  original_stem \o <<"_">> \o DecimalDigits(counter) \o DotJpg,
                  original_stem, counter + 1)
    ELSE filepath

\* GeneratedImage(path, filename, size_bytes); size_human is left out
GeneratedImage(filepath, size_bytes) ==
    [path |-> <<"output_dir", filepath>>, filename |-> filepath,
     size_bytes |-> size_bytes]

\* Mutation: the image is written under the desired name, whatever exists.
SaveImageOverwrite(directory, image_bytes, filename) ==
    [directory |-> WriteBytes(directory, filename, image_bytes),
     saved |-> GeneratedImage(filename, Len(image_bytes))]

\* save_image(image_bytes, filename) in the output directory `directory`:
\* the directory afterwards and the GeneratedImage returned.
save_image(directory, image_bytes, filename) ==
    LET filepath == FreePath(directory, filename, Stem(filename), 1)
    IN  [directory |-> WriteBytes(directory, filepath, image_bytes),
         saved |-> GeneratedImage(filepath, Len(image_bytes))]

RECURSIVE SaveEach(_, _, _, _)
\* The loop `for i, image_bytes in enumerate(images, 1)` of a tool, which
\* saves images[i] under filenames[i]: the directory afterwards and the
\* list saved_images.
SaveEach(directory, images, filenames, saved_images) ==
    IF Len(images) = 0
    THEN [directory |-> directory, saved_images |-> saved_images]
    ELSE LET s == save_image(directory, Head(images), Head(filenames))
         IN  SaveEach(s.directory, Tail(images), Tail(filenames),
                      Append(saved_images, s.saved))

----------------------------------------------------------------------------
(* The server: the tools.  A tool runs from its invocation to its          *)
(* `await client.generate(...)`, or to the return that ends it before, and *)
(* from the end of generate() to its return.                               *)

\* [r.value for r in AspectRatio]
ValidRatios ==
    {"1:1", "16:9", "9:16", "4:3", "3:4", "3:2", "2:3", "21:9", "9:21", "5:4"}

\* [s.value for s in ImageSize]
ValidSizes == {"1K", "2K", "4K"}

\* The text a tool returns for an error, and what it returns after saving.
ToolError(text, detail) == [kind |-> "error", text |-> text, detail |-> detail]

ToolSaved(saved_images) == [kind |-> "saved", images |-> saved_images]

\* Mutation: the size is not validated.
FormatErrorRatioOnly(aspect_ratio, size) ==
    IF aspect_ratio \notin ValidRatios
    THEN Some(ToolError("Error: Invalid aspect ratio", aspect_ratio))
    ELSE None

\* "Validate aspect ratio" and "Validate size" of the three tools: the
\* error returned, or None.
FormatError(aspect_ratio, size) ==
    IF aspect_ratio \notin ValidRatios
    THEN Some(ToolError("Error: Invalid aspect ratio", aspect_ratio))
    ELSE IF size \notin ValidSizes
    THEN Some(ToolError("Error: Invalid size", size))
    ELSE None

\* "Validate count": the count is brought into lowest..highest.
ClampCount(count, lowest, highest) ==
    IF count < lowest THEN lowest
    ELSE IF count > highest THEN highest
    ELSE count

\* The files the paths of the model name: two image files, a directory and
\* a file that cannot be read.  Any other path names nothing.
Disk ==
    ("refs/photo.jpg" :> [kind |-> "file", bytes |-> <<77>>])
    @@ ("refs/sketch.png" :> [kind |-> "file", bytes |-> <<0, 255>>])
    @@ ("refs" :> [kind |-> "dir"])
    @@ ("refs/locked.jpg" :> [kind |-> "unreadable"])

\* The most reference images generate_variations accepts.
MaxReferenceImages == 14

RECURSIVE LoadReferenceImages(_, _)
\* "Load reference images": the list read, or the error returned.
LoadReferenceImages(image_paths, reference_images) ==
    IF Len(image_paths) = 0 THEN Return(reference_images)
    ELSE LET img_path == Head(image_paths)
         IN  IF img_path \notin DOMAIN Disk
             THEN ToolError("Error: Image not found", img_path)
             ELSE IF Disk[img_path].kind = "dir"
             THEN ToolError("Error: Not a file", img_path)
             ELSE IF Disk[img_path].kind = "unreadable"
             THEN ToolError("Error reading", img_path)
             ELSE LoadReferenceImages(Tail(image_paths),
                        Append(reference_images, Disk[img_path].bytes))

\* What generate_variations does before its `try`: the error returned, or
\* the reference images loaded.
VariationsInput(image_paths, aspect_ratio, size) ==
    IF ~Truthy(image_paths)
    THEN ToolError("Error: At least one image path is required", "")
    ELSE IF Len(image_paths) > MaxReferenceImages
    THEN ToolError("Error: Maximum 14 reference images supported", "")
    ELSE IF FormatError(aspect_ratio, size) # None
    THEN FormatError(aspect_ratio, size).value
    ELSE LoadReferenceImages(image_paths, <<>>)

\* The tool returns before its `try`.
Rejected(name, args, error) ==
    /\ pc = "idle"
    /\ tool' = [stage |-> "done", name |-> name, args |-> args,
                awaited |-> FALSE, result |-> error]
    /\ UNCHANGED <<client_vars, instance, files>>

\* No more than MaxFiles files are saved in a run of the model.
Room(num_images) == Cardinality(DOMAIN files) + num_images <= MaxFiles

\* get_client() and `await client.generate(...)` of a tool: generate() is
\* entered.
Awaited(name, args, num_images, reference_images) ==
    /\ Room(num_images)
    /\ instance' = Some("ImageGenClient")
    /\ GenerateCall(args.prompt, args.aspect_ratio, args.size, num_images,
                    reference_images)
    /\ tool' = [stage |-> "awaiting", name |-> name, args |-> args,
                awaited |-> TRUE]
    /\ UNCHANGED files

\* No tool is waiting for generate().
ToolIdle == tool.stage # "awaiting"

\* The tool generate_image, to its `await`.
generate_image(prompt, aspect_ratio, size) ==
    /\ ToolIdle
    /\ LET args == [prompt |-> prompt, aspect_ratio |-> aspect_ratio, size |-> size]
           error == FormatError(aspect_ratio, size)
       IN  IF error # None
           THEN Rejected("generate_image", args, error.value)
           ELSE Awaited("generate_image", args, 1, None)
    /\ UNCHANGED codec

\* The tool generate_multiple, to its `await`.
generate_multiple(prompt, count, aspect_ratio, size) ==
    /\ ToolIdle
    /\ LET args == [prompt |-> prompt, count |-> count,
                    aspect_ratio |-> aspect_ratio, size |-> size]
           error == FormatError(aspect_ratio, size)
       IN  IF error # None
           THEN Rejected("generate_multiple", args, error.value)
           ELSE Awaited("generate_multiple", args, ClampCount(count, 2, 4), None)
    /\ UNCHANGED codec

\* The tool generate_variations, to its `await`.
generate_variations(image_paths, prompt, count, aspect_ratio, size) ==
    /\ ToolIdle
    /\ LET args == [image_paths |-> image_paths, prompt |-> prompt, count |-> count,
                    aspect_ratio |-> aspect_ratio, size |-> size]
           input == VariationsInput(image_paths, aspect_ratio, size)
       IN  IF input.kind = "error"
           THEN Rejected("generate_variations", args, input)
           ELSE Awaited("generate_variations", args, ClampCount(count, 1, 4),
                        Some(input.value))
    /\ UNCHANGED codec

\* generate() is over and the tool `name` goes on.
Resumed(name) ==
    /\ tool.stage = "awaiting"
    /\ tool.name = name
    /\ pc = "idle"

\* The tool ends with `result`, after saving `filenames` into `directory`.
Returned(result_, filenames, directory) ==
    /\ tool' = [stage |-> "done", name |-> tool.name, args |-> tool.args,
                awaited |-> TRUE, result |-> result_, filenames |-> filenames]
    /\ files' = directory
    /\ UNCHANGED <<client_vars, instance, codec>>

\* `except ImageGenError` and `except Exception` of a tool.
Caught(text, raised) ==
    IF raised.exc = "ImageGenError"
    THEN ToolError(text, raised.message)
    ELSE ToolError("Unexpected error", raised.message)

\* The tool generate_image, from the end of generate().
generate_image_done ==
    /\ Resumed("generate_image")
    /\ LET images == result.value.outcome
           filename == generate_filename_from_prompt(tool.args.prompt)
       IN  IF images.kind = "raise"
           THEN Returned(Caught("Error generating image", images), <<>>, files)
           ELSE IF ~Truthy(images.value)
           THEN Returned(ToolError("Error: No image was generated", ""), <<>>, files)
           ELSE LET s == save_image(files, images.value[1], filename)
                IN  Returned(ToolSaved(<<s.saved>>), <<filename>>, s.directory)

\* The tool generate_multiple, from the end of generate().
generate_multiple_done ==
    /\ Resumed("generate_multiple")
    /\ LET images == result.value.outcome
           base_filename == generate_filename_from_prompt(tool.args.prompt)
           base_stem == RemoveAll(base_filename, DotJpg)
       IN  IF images.kind = "raise"
           THEN Returned(Caught("Error generating images", images), <<>>, files)
           ELSE IF ~Truthy(images.value)
           THEN Returned(ToolError("Error: No images were generated", ""), <<>>, files)
           ELSE LET filenames ==
                        [i \in 1..Len(images.value) |->
                            base_stem \o <<"_", "v">> \o DecimalDigits(i) \o DotJpg]
                    s == SaveEach(files, images.value, filenames, <<>>)
                IN  Returned(ToolSaved(s.saved_images), filenames, s.directory)

\* The tool generate_variations, from the end of generate().
generate_variations_done ==
    /\ Resumed("generate_variations")
    /\ LET images == result.value.outcome
           base_filename == generate_filename_from_prompt(tool.args.prompt)
           base_stem == RemoveAll(base_filename, DotJpg)
       IN  IF images.kind = "raise"
           THEN Returned(Caught("Error generating variations", images), <<>>, files)
           ELSE IF ~Truthy(images.value)
           THEN Returned(ToolError("Error: No images were generated", ""), <<>>, files)
           ELSE LET filenames ==
                        [i \in 1..Len(images.value) |->
                            IF Len(images.value) = 1
                            THEN base_stem \o DotJpg
                            ELSE base_stem \o <<"_", "v", "a", "r">>
                                    \o DecimalDigits(i) \o DotJpg]
                    s == SaveEach(files, images.value, filenames, <<>>)
                IN  Returned(ToolSaved(s.saved_images), filenames, s.directory)

\* The prompts the tools are given: "a" and "a 1" (generate_image, and "a"
\* generate_variations), and "A fox!" (generate_multiple).
PromptA == <<"a">>

PromptA1 == <<"a", " ", "1">>

PromptFox == <<"A", " ", "f", "o", "x", "!">>

\* A format of the enums, one with an aspect ratio and one with a size
\* outside them.
GoodFormat == [aspect_ratio |-> "16:9", size |-> "4K"]

BadRatio == [aspect_ratio |-> "2:1", size |-> "2K"]

BadSize == [aspect_ratio |-> "1:1", size |-> "8K"]

\* The counts the tools are given: below, in and above both ranges.
ToolCounts == {0, 2, 5}

\* The invocations of generate_image.
ImageRequests ==
    {[prompt |-> prompt, format |-> GoodFormat] :
        prompt \in {PromptA, PromptA1}}
    \cup {[prompt |-> PromptA, format |-> format] : format \in {BadRatio, BadSize}}

\* The invocations of generate_multiple.
MultipleRequests ==
    {[prompt |-> PromptFox, count |-> count, format |-> GoodFormat] :
        count \in ToolCounts}
    \cup {[prompt |-> PromptFox, count |-> 2, format |-> format] :
            format \in {BadRatio, BadSize}}
    \cup {[prompt |-> PromptFox, count |-> 0, format |-> BadSize]}

\* Lists of paths that name image files: one, two, and 14 of them.
GoodPathLists ==
    {<<"refs/photo.jpg">>, <<"refs/sketch.png", "refs/photo.jpg">>,
     [i \in 1..MaxReferenceImages |-> "refs/photo.jpg"]}

\* Lists generate_variations does not take: no path, 15 paths, a path that
\* names nothing, a directory after an image file, a file that cannot be
\* read.
BadPathLists ==
    {<<>>, [i \in 1..(MaxReferenceImages + 1) |-> "refs/photo.jpg"],
     <<"refs/none.jpg">>, <<"refs/photo.jpg", "refs">>, <<"refs/locked.jpg">>}

\* The invocations of generate_variations.
VariationRequests ==
    {[image_paths |-> image_paths, prompt |-> PromptA, count |-> 2,
      format |-> GoodFormat] : image_paths \in GoodPathLists \cup BadPathLists}
    \cup {[image_paths |-> <<"refs/photo.jpg">>, prompt |-> PromptA,
           count |-> count, format |-> GoodFormat] : count \in ToolCounts}
    \cup {[image_paths |-> <<"refs/photo.jpg">>, prompt |-> PromptA,
           count |-> 2, format |-> format] : format \in {BadRatio, BadSize}}
    \cup {[image_paths |-> <<"refs/none.jpg">>, prompt |-> PromptA, count |-> 0,
           format |-> GoodFormat]}

\* The output directory when the server starts: empty, or with a file of
\* an earlier run.
OutputDirs == {<<>>, (generate_filename_from_prompt(<<"a">>) :> ImageA)}

ServerInit ==
    /\ ClientInit
    /\ codec = CodecOff
    /\ instance = None
    /\ tool = NoTool
    /\ files \in OutputDirs

ServerNext ==
    \/ \E r \in ImageRequests :
            generate_image(r.prompt, r.format.aspect_ratio, r.format.size)
    \/ \E r \in MultipleRequests :
            generate_multiple(r.prompt, r.count, r.format.aspect_ratio, r.format.size)
    \/ \E r \in VariationRequests :
            generate_variations(r.image_paths, r.prompt, r.count,
                                r.format.aspect_ratio, r.format.size)
    \/ SingleGenerate
    \/ PostGenerationDone
    \/ GenerateReturn
    \/ generate_image_done
    \/ generate_multiple_done
    \/ generate_variations_done

ServerSpec == ServerInit /\ [][ServerNext]_vars

----------------------------------------------------------------------------
(* Properties of generate(). *)

\* The requests generate() sent are the entries of the log for ENDPOINT.
GenerateLog == sent # <<>> /\ sent[1].url = "ENDPOINT"

\* The last call was generate() and it is over.
GenerateDone == pc = "idle" /\ result # None /\ result.value.call.op = "generate"

\* C1: all or nothing.  When the k-th request of a generate() call has
\* failed, the call is over, it raised the error _single_generate made of
\* that request's failure, and it returned no list, whatever the k-1 images
\* obtained before.
C1_AllOrNothing ==
    \A k \in 1..Len(sent) :
        (GenerateLog /\ sent[k].state = "failed") =>
            /\ pc = "idle"
            /\ frame = NoFrame
            /\ result # None
            /\ result.value.call.op = "generate" =>
                /\ result.value.outcome.kind = "raise"
                /\ result.value.outcome.exc = "ImageGenError"
                /\ result.value.outcome = SingleGenerateOutcome(result.value.transport)
                /\ k = Len(sent)
                /\ k <= result.value.call.num_images

\* C1 witness: generate(num_images = 3) whose 2nd request failed after the
\* 1st gave an image.
C1_Witness ==
    /\ GenerateLog /\ GenerateDone
    /\ result.value.call.num_images = 3
    /\ Len(sent) = 2
    /\ sent[1].state = "ok" /\ sent[2].state = "failed"
    /\ result.value.outcome.kind = "raise"

\* C2: strictly sequential.  In the log of a generate() call every request
\* but the last has completed successfully, so at most one request is in
\* flight, none follows a failed one and none is sent twice: the call sends
\* at most num_images requests, one per iteration.
C2_Sequential ==
    GenerateLog =>
        /\ \A k \in 1..(Len(sent) - 1) : sent[k].state = "ok"
        /\ (sent[Len(sent)].state = "pending") <=> (request # None)
        /\ pc \in {"generate", "post_generation"} =>
            /\ Len(sent) = frame.i
            /\ frame.i <= frame.num_images
            /\ Len(frame.images) = Len(sent) - (IF request # None THEN 1 ELSE 0)

\* C2 witness: the 2nd request of a call is in flight after the 1st
\* succeeded.
C2_Witness ==
    /\ GenerateLog
    /\ pc = "post_generation"
    /\ Len(sent) = 2
    /\ sent[1].state = "ok" /\ sent[2].state = "pending"

\* C3 as stated: whenever generate() returns, for any num_images, the list
\* is not empty and holds one image per backend call, num_images in all.
C3_Original ==
    (GenerateDone /\ result.value.outcome.kind = "return") =>
        /\ result.value.outcome.value # <<>>
        /\ Len(result.value.outcome.value) = Len(sent)
        /\ Len(result.value.outcome.value) = result.value.call.num_images

\* C3 amended: whenever generate() returns, the list holds one image per
\* backend call; for num_images >= 1 it is not empty and num_images long,
\* and for num_images = 0 it is empty and no backend call was made.
C3_Amended ==
    (GenerateDone /\ result.value.outcome.kind = "return") =>
        LET images == result.value.outcome.value
            num_images == result.value.call.num_images
        IN  /\ Len(images) = Len(sent)
            /\ \A k \in 1..Len(sent) : sent[k].state = "ok"
            /\ num_images >= 1 => (images # <<>> /\ Len(images) = num_images)
            /\ num_images = 0 => (images = <<>> /\ sent = <<>>)

\* C3 witness: generate(num_images = 2) returned two images.
C3_Witness ==
    /\ GenerateDone
    /\ result.value.outcome.kind = "return"
    /\ result.value.call.num_images = 2
    /\ Len(result.value.outcome.value) = 2

----------------------------------------------------------------------------
(* Properties of the decoder and the encoder, under CodecSpec. *)

\* The decoder was applied to a response document.
Decoded == codec.stage = "decoded"

\* The outcome of the decoder.
DecoderOutcome == codec.decoded.value

\* A part that carries inline data with an "image/" MIME type.
IsImagePart(part) ==
    /\ "inlineData" \in DOMAIN part
    /\ StartsWith(Get(part.inlineData, "mimeType", <<>>), ImagePrefix)

\* The image parts of the decoded document, in order.
ImageParts ==
    SelectSeq(PartsOf(Get(codec.response_data, "candidates", <<>>)), IsImagePart)

\* The data of an image part ("" when it has none).
DataOf(part) == Get(part.inlineData, "data", <<>>)

\* The parts of C4 that hold as stated: no candidates or no image part is
\* a decode error, and a returned list is never empty.
DecoderFailures ==
    Decoded =>
        /\ ~Truthy(Get(codec.response_data, "candidates", <<>>)) =>
            DecoderOutcome = ImageGenError("No candidates in API response", {})
        /\ ImageParts = <<>> =>
            /\ DecoderOutcome.kind = "raise"
            /\ DecoderOutcome.exc = "ImageGenError"
        /\ DecoderOutcome.kind = "return" => DecoderOutcome.value # <<>>

\* C4 as stated: the decoder fails when `candidates` is absent or empty and
\* when no part is an image part, never returns an empty list, and for a
\* response with exactly one image part returns the one-element list of
\* that part's base64-decoded bytes (wherever the data is base64 at all).
C4_Original ==
    /\ DecoderFailures
    /\ (Decoded /\ Len(ImageParts) = 1
            /\ b64decode(DataOf(ImageParts[1])).kind = "return") =>
        DecoderOutcome = Return(<<b64decode(DataOf(ImageParts[1])).value>>)

\* C4 amended: as C4, but the one image part gives its decoded bytes only
\* when its data is not empty; an image part with empty or missing data is
\* skipped, so that alone it gives the error "No images found", and data
\* that is not base64 makes b64decode's own exception leave the decoder.
C4_Amended ==
    /\ DecoderFailures
    /\ (Decoded /\ Len(ImageParts) = 1) =>
        LET data == DataOf(ImageParts[1])
        IN  IF ~Truthy(data)
            THEN DecoderOutcome = ImageGenError("No images found in API response", {})
            ELSE IF b64decode(data).kind = "return"
            THEN DecoderOutcome = Return(<<b64decode(data).value>>)
            ELSE DecoderOutcome = b64decode(data)

\* C4 witness: a response built by the backend with a text part and one
\* image part was decoded to that one image.
C4_Witness ==
    /\ Decoded
    /\ codec.input = EmptyDict
    /\ Len(PartsOf(Get(codec.response_data, "candidates", <<>>))) = 2
    /\ Len(ImageParts) = 1
    /\ DecoderOutcome = Return(<<ImageB>>)

\* The encoder was applied to an input.
Encoded == codec.input # EmptyDict /\ codec.stage # "input"

\* The reference images of the encoder's input ([] for None).
InputImages ==
    IF codec.input.reference_images.some
    THEN codec.input.reference_images.value ELSE <<>>

\* C5: the request body has one content block, whose parts are one
\* inline-data part per reference image, in input order, each tagged with
\* an image MIME type and carrying the base64 text of its image, followed
\* by the text part that holds the prompt: k + 1 parts for k images.
C5_PartsLayout ==
    Encoded =>
        LET parts == codec.body.contents[1].parts
            k == Len(InputImages)
        IN  /\ Len(codec.body.contents) = 1
            /\ Len(parts) = k + 1
            /\ \A i \in 1..k :
                /\ DOMAIN parts[i] = {"inlineData"}
                /\ StartsWith(parts[i].inlineData.mimeType, ImagePrefix)
                /\ parts[i].inlineData.data = b64encode(InputImages[i])
            /\ parts[k + 1] = [text |-> codec.input.prompt]

\* C5 witness: a request with two different reference images was encoded.
C5_Witness ==
    /\ Encoded
    /\ Len(InputImages) = 2
    /\ InputImages[1] = <<255, 77, 0>>
    /\ InputImages[2] = <<77>>

\* The response decoded is the echo of the request encoded from the input.
EchoDecoded == Decoded /\ codec.input # EmptyDict

\* C6 as stated: for every buffer B, a request with the one reference image
\* B, echoed and decoded, gives back B.
C6_Original ==
    (EchoDecoded /\ Len(InputImages) = 1) =>
        DecoderOutcome = Return(InputImages)

\* C6 amended: for every buffer B that is not empty, a request with B,
\* echoed and decoded, gives back B (and a request with several non-empty
\* buffers gives them all back, in order); the empty buffer is encoded as
\* empty data, which the decoder skips: echoed alone it is a decode error.
C6_Amended ==
    /\ (EchoDecoded /\ InputImages # <<>>
            /\ \A i \in 1..Len(InputImages) : InputImages[i] # <<>>) =>
        DecoderOutcome = Return(InputImages)
    /\ (EchoDecoded /\ InputImages = <<<<>>>>) =>
        DecoderOutcome = ImageGenError("No images found in API response", {})

\* C6 witness: a one-byte buffer, whose base64 text is padded, went through
\* the encoder, the echo and the decoder.
C6_Witness ==
    /\ EchoDecoded
    /\ InputImages = <<<<77>>>>
    /\ DecoderOutcome = Return(<<<<77>>>>)

----------------------------------------------------------------------------
(* Properties of the decoder's order, under CodecSpec. *)

\* _single_generate was applied to the response document, after the
\* decoder.
Generated == codec.stage = "generated"

\* The bytes the image parts carry, in encounter order.
BytesOf(parts) == [i \in DOMAIN parts |-> b64decode(DataOf(parts[i])).value]

\* The data of every one of the parts is base64.
AllBase64(parts) ==
    \A i \in DOMAIN parts : b64decode(DataOf(parts[i])).kind = "return"

\* An image part that carries data.
IsFilledImagePart(part) == IsImagePart(part) /\ Truthy(DataOf(part))

\* The image parts of the document that carry data, in encounter order.
FilledImageParts ==
    SelectSeq(PartsOf(Get(codec.response_data, "candidates", <<>>)),
              IsFilledImagePart)

\* C13 as stated: the decoder returns the bytes of every inline-data part
\* whose MIME type starts with "image/", in encounter order, and a single
\* generation call returns the first of them (wherever the data of these
\* parts is base64 at all).
C13_Original ==
    (Generated /\ ImageParts # <<>> /\ AllBase64(ImageParts)) =>
        /\ DecoderOutcome = Return(BytesOf(ImageParts))
        /\ codec.image.value = Return(BytesOf(ImageParts)[1])

\* C13 amended: the decoder returns the bytes of every inline-data part
\* whose MIME type starts with "image/" and whose data is not empty, in
\* encounter order (candidates in order, parts within a candidate in
\* order), skipping the other parts, an image part with empty or missing
\* data among them; a single generation call then returns the first
\* element of that sequence and ignores the further images.  When the data
\* of one of these parts is not base64 the decoder raises, and the single
\* generation call raises ImageGenError instead of returning an image.
C13_Amended ==
    /\ (Generated /\ FilledImageParts # <<>> /\ AllBase64(FilledImageParts)) =>
        /\ DecoderOutcome = Return(BytesOf(FilledImageParts))
        /\ codec.image.value = Return(BytesOf(FilledImageParts)[1])
    /\ (Generated /\ ~AllBase64(FilledImageParts)) =>
        /\ DecoderOutcome.kind = "raise"
        /\ codec.image.value = ImageGenError("Failed to parse API response", {})

\* C13 witness: a response with one image in each of two candidates; the
\* decoder returned both in order and the single generation call the first.
C13_Witness ==
    /\ Generated
    /\ Len(Get(codec.response_data, "candidates", <<>>)) = 2
    /\ Len(PartsOf(<<codec.response_data.candidates[1]>>)) = 1
    /\ Len(PartsOf(<<codec.response_data.candidates[2]>>)) = 1
    /\ DecoderOutcome = Return(<<ImageB, ImageA>>)
    /\ codec.image.value = Return(ImageB)

----------------------------------------------------------------------------
(* Properties of the transport's error mapping. *)

\* The variant of the specification's error taxonomy an ImageGenError of
\* the client stands for, by its message.
VariantOf(error) ==
    CASE error.message \in {"Request timed out", "Prompt variation request timed out"}
            -> "Timeout"
      [] error.message \in {"Network error", "Network error during prompt variation"}
            -> "NetworkFailure"
      [] error.message = "Invalid API key" -> "Unauthorized"
      [] error.message = "Rate limit exceeded" -> "RateLimited"
      [] error.message \in {"API error", "LLM API error"} -> "HttpError"
      [] error.message \in {"Failed to parse API response", "Failed to parse LLM response"}
            -> "DecodeFailure"
      [] error.message = "Expected count variations" -> "VariationCountMismatch"
      [] OTHER -> "none"

\* The variant C7 gives for a failed transport, in its priority order.
PriorityVariant(transport) ==
    IF transport.kind = "TimeoutException" THEN "Timeout"
    ELSE IF transport.kind = "RequestError" THEN "NetworkFailure"
    ELSE IF transport.status_code = 401 THEN "Unauthorized"
    ELSE IF transport.status_code = 429 THEN "RateLimited"
    ELSE "HttpError"

\* The awaited post failed: it raised, or the status is 400 or more.
TransportFailed(transport) ==
    transport.kind = "response" => transport.status_code >= 400

\* A call that posted a request is over with an ImageGenError.
CallRaised ==
    /\ pc = "idle"
    /\ result # None
    /\ result.value.call.op \in {"generate", "generate_prompt_variations"}
    /\ result.value.outcome.kind = "raise"
    /\ result.value.outcome.exc = "ImageGenError"

\* An error carries a status code exactly when it is Unauthorized,
\* RateLimited or HttpError, and then the status of the response.
StatusCodeRule ==
    CallRaised =>
        LET error == result.value.outcome
        IN  IF VariantOf(error) \in {"Unauthorized", "RateLimited", "HttpError"}
            THEN error.status_code = {result.value.transport.status_code}
            ELSE error.status_code = {}

\* C7 as stated: generate() and generate_prompt_variations() alike map a
\* failed transport to Timeout, NetworkFailure, Unauthorized (401),
\* RateLimited (429) or HttpError (any other status >= 400), and the status
\* code is carried exactly by the last three.
C7_Original ==
    /\ StatusCodeRule
    /\ (CallRaised /\ TransportFailed(result.value.transport)) =>
        VariantOf(result.value.outcome) = PriorityVariant(result.value.transport)

\* C7 amended: the generation call maps as stated; the chat call maps a
\* timeout to Timeout, another request failure to NetworkFailure and every
\* status >= 400, 401 and 429 included, to HttpError with that status; in
\* both calls the status code is carried exactly by Unauthorized,
\* RateLimited and HttpError.
C7_Amended ==
    /\ StatusCodeRule
    /\ (CallRaised /\ TransportFailed(result.value.transport)) =>
        LET transport == result.value.transport
            variant == VariantOf(result.value.outcome)
        IN  IF result.value.call.op = "generate"
            THEN variant = PriorityVariant(transport)
            ELSE IF transport.kind = "response" THEN variant = "HttpError"
            ELSE variant = PriorityVariant(transport)
    /\ (CallRaised /\ ~TransportFailed(result.value.transport)) =>
        VariantOf(result.value.outcome) \in {"DecodeFailure", "VariationCountMismatch"}

\* C7 witness: generate() got a 401 on its 2nd request and raised
\* "Invalid API key" with status code 401.
C7_Witness ==
    /\ CallRaised
    /\ result.value.call.op = "generate"
    /\ Len(sent) = 2
    /\ result.value.transport = Response(401, None)
    /\ result.value.outcome = ImageGenError("Invalid API key", {401})

----------------------------------------------------------------------------
(* Properties of generate_prompt_variations(). *)

\* generate_prompt_variations() is over and the backend had answered with a
\* JSON object in choices[0].message.content.
VariationsAnswered ==
    /\ pc = "idle"
    /\ result # None
    /\ result.value.call.op = "generate_prompt_variations"
    /\ result.value.transport.kind = "response"
    /\ result.value.transport.status_code < 400
    /\ result.value.transport.json.some
    /\ ChatVariations(result.value.transport.json.value).kind = "return"

\* The `variations` array of the backend's answer ([] when it has none).
BackendVariations == ChatVariations(result.value.transport.json.value).value

\* C8: when the backend's `variations` array is not count long, or is
\* missing, the call raises the count-mismatch error; when it is count
\* long, the call returns that array, in the backend's order.
C8_VariationCount ==
    VariationsAnswered =>
        LET count == result.value.call.count
            content == result.value.transport.json.value.choices[1].message.content
        IN  /\ Len(BackendVariations) # count =>
                result.value.outcome = ImageGenError("Expected count variations", {})
            /\ "variations" \notin DOMAIN content.value.fields =>
                result.value.outcome = ImageGenError("Expected count variations", {})
            /\ Len(BackendVariations) = count =>
                /\ result.value.outcome = Return(content.value.fields.variations)
                /\ Len(result.value.outcome.value) = count

\* C8 witness: count = 2 and the backend's two variations came back in the
\* backend's order.
C8_Witness ==
    /\ VariationsAnswered
    /\ result.value.call.count = 2
    /\ BackendVariations = <<"v2", "v1">>
    /\ result.value.outcome = Return(<<"v2", "v1">>)

\* generate_prompt_variations() is over.
VariationsDone ==
    /\ pc = "idle"
    /\ result # None
    /\ result.value.call.op = "generate_prompt_variations"

\* C14: every failure of generate_prompt_variations() is an ImageGenError.
\* Whatever the awaited post ended in, and whatever the shape of the body
\* of a 2xx response, the call returns count strings or raises
\* ImageGenError, and nothing else.
C14_SingleErrorType ==
    VariationsDone =>
        LET outcome == result.value.outcome
        IN  \/ outcome.kind = "return" /\ Len(outcome.value) = result.value.call.count
            \/ outcome.kind = "raise" /\ outcome.exc = "ImageGenError"

\* C14 witness: the body of a 200 response has an empty `choices`, and the
\* IndexError of choices[0] left generate_prompt_variations().
C14_Witness ==
    /\ VariationsDone
    /\ result.value.transport = Response(200, Some([choices |-> <<>>]))
    /\ result.value.outcome.kind = "raise"
    /\ result.value.outcome.exc = "IndexError"

----------------------------------------------------------------------------
(* Properties of the handle's lifecycle. *)

\* This step is a close() that follows a close().
SecondClose ==
    /\ AfterClose
    /\ result' # result
    /\ result' # None
    /\ result'.value.call.op = "close"
    /\ result'.value.after_close

\* C9: close() is idempotent.  A close() right after a close() runs
\* aclose() on nothing and changes nothing of the client, whatever the state
\* before the first one, and aclose() runs at most once on a handle.
C9_CloseIdempotent ==
    /\ [](\A h \in DOMAIN aclosed : aclosed[h] <= 1)
    /\ [][SecondClose =>
            /\ result'.value.released = {}
            /\ UNCHANGED <<_client, created, aclosed, pc, frame, request, sent>>
            /\ _client = None]_vars

\* C9 witness: a handle was created, and close() was called twice in a row.
C9_Witness ==
    /\ AfterClose
    /\ result.value.after_close
    /\ created = 1
    /\ aclosed = <<1>>

\* The handles close() has released.
Released == {h \in DOMAIN aclosed : aclosed[h] >= 1}

\* C10 as stated: over any sequence of calls, at most one handle is ever
\* created and every request is sent on it.
C10_Original ==
    /\ created <= 1
    /\ \A k \in 1..Len(sent) : sent[k].handle = 1

\* C10 amended: a handle is created only when the client holds none, on
\* the first use and on the first use after a close(); so every handle but
\* the one held has been released, the handles created are at most one more
\* than those released (at most one as long as close() is not called), and
\* every request of a call is sent on the handle held.
C10_Amended ==
    /\ created <= 1 + Cardinality(Released)
    /\ DOMAIN aclosed = 1..created
    /\ _client # None => (_client.value = created /\ created \notin Released)
    /\ \A h \in 1..created : (_client = None \/ h # _client.value) => h \in Released
    /\ request # None => (_client # None /\ request.value.handle = _client.value)
    /\ pc # "idle" => \A k \in 1..Len(sent) : sent[k].handle = _client.value

\* C10 witness: after a close(), a call is sending its 2nd request on the
\* 2nd handle.
C10_Witness ==
    /\ created = 2
    /\ 1 \in Released
    /\ pc = "post_generation"
    /\ Len(sent) = 2
    /\ request.value.handle = 2

----------------------------------------------------------------------------
(* Properties of the tools, under ServerSpec. *)

\* A tool was invoked: `tool` holds the invocation that runs or ran last.
Invoked == tool.stage # "none"

\* The aspect ratio or the size given is outside its enum.
BadFormatGiven ==
    tool.args.aspect_ratio \notin ValidRatios \/ tool.args.size \notin ValidSizes

\* The count given is outside the range the tool documents: 2-4 for
\* generate_multiple, 1-4 for generate_variations.
BadCountGiven ==
    \/ tool.name = "generate_multiple" /\ (tool.args.count < 2 \/ tool.args.count > 4)
    \/ tool.name = "generate_variations" /\ (tool.args.count < 1 \/ tool.args.count > 4)

\* The reference list given is empty or longer than 14, or one of its paths
\* names nothing or names a directory.
BadPathsGiven ==
    /\ tool.name = "generate_variations"
    /\ LET image_paths == tool.args.image_paths
       IN  \/ image_paths = <<>>
           \/ Len(image_paths) > 14
           \/ \E i \in DOMAIN image_paths :
                \/ image_paths[i] \notin DOMAIN Disk
                \/ Disk[image_paths[i]].kind = "dir"

\* The invocation is over with an error and never reached generate().
RejectedUnsent ==
    /\ tool.stage = "done"
    /\ tool.result.kind = "error"
    /\ ~tool.awaited

\* The number of images the invocation asks generate() for, once it has
\* reached it.
AskedFor ==
    IF pc = "idle" THEN result.value.call.num_images ELSE frame.num_images

\* The requests sent for the invocation: generate() starts its log afresh.
SentInInvocation == IF tool.awaited THEN sent ELSE <<>>

\* C11 as stated: an invocation with an aspect ratio or a size outside the
\* enums, a count out of range, an empty or over-long reference list or a
\* missing or non-file reference image ends with an error result, and no
\* request is sent for it.
C11_Original ==
    (Invoked /\ (BadFormatGiven \/ BadCountGiven \/ BadPathsGiven)) =>
        /\ tool.stage = "done" => tool.result.kind = "error"
        /\ SentInInvocation = <<>>

\* C11 amended: an invocation with an aspect ratio or a size outside the
\* enums, an empty or over-long reference list or a missing or non-file
\* reference image ends with an error result before any network call: the
\* step that rejects it leaves the client as it was, and requests are sent
\* only for an invocation that reached generate().  A count out of range is
\* not rejected: it is clamped (to 2..4 by generate_multiple, to 1..4 by
\* generate_variations) and generate() is asked for that many images.
C11_Amended ==
    /\ []((Invoked /\ (BadFormatGiven \/ BadPathsGiven)) => RejectedUnsent)
    /\ []((Invoked /\ tool.awaited /\ tool.stage = "awaiting") =>
            /\ tool.name = "generate_image" => AskedFor = 1
            /\ tool.name = "generate_multiple" =>
                AskedFor = ClampCount(tool.args.count, 2, 4)
            /\ tool.name = "generate_variations" =>
                AskedFor = ClampCount(tool.args.count, 1, 4)
            /\ Len(sent) <= AskedFor)
    /\ [][(tool' # tool /\ tool'.stage = "done" /\ ~tool'.awaited) =>
            UNCHANGED client_vars]_vars
    /\ [][(sent' # sent \/ request' # request) =>
            (tool'.stage = "awaiting" /\ tool'.awaited)]_vars

\* C11 witness: after an invocation that sent two requests,
\* generate_variations was given an image file and a directory, and was
\* rejected.
C11_Witness ==
    /\ Invoked
    /\ tool.name = "generate_variations"
    /\ tool.args.image_paths = <<"refs/photo.jpg", "refs">>
    /\ RejectedUnsent
    /\ tool.result.text = "Error: Not a file"
    /\ Len(sent) = 2
    /\ request = None

----------------------------------------------------------------------------
(* Properties of save_image, under ServerSpec. *)

\* The name `desired` with the numeric suffix k before its extension.
Suffixed(desired, k) ==
    SubSeq(desired, 1, Len(desired) - 4) \o <<"_">> \o DecimalDigits(k)
        \o SubSeq(desired, Len(desired) - 3, Len(desired))

\* This step is the return of a tool that saved images.
SaveStep ==
    /\ tool' # tool
    /\ tool'.stage = "done"
    /\ tool'.result.kind = "saved"

\* C12: save_image never overwrites.  No step changes or removes a file of
\* the output directory.  A tool that saves images adds one file per image,
\* with the image as its content: under the desired name when no file has
\* that name, and otherwise under a new name, the desired one with a
\* numeric suffix before the extension; so two saves under the same desired
\* name give two files, and the first keeps its content.
C12_NeverOverwrites ==
    /\ [][\A n \in DOMAIN files : n \in DOMAIN files' /\ files'[n] = files[n]]_vars
    /\ [][SaveStep =>
            LET saved == tool'.result.images
                desired == tool'.filenames
                images == result.value.outcome.value
                Taken(i) == DOMAIN files \cup {saved[j].filename : j \in 1..(i - 1)}
            IN  /\ Len(saved) = Len(images)
                /\ Len(desired) = Len(images)
                /\ DOMAIN files' = DOMAIN files \cup {saved[i].filename : i \in DOMAIN saved}
                /\ Cardinality(DOMAIN files') = Cardinality(DOMAIN files) + Len(images)
                /\ \A i \in DOMAIN saved :
                    /\ saved[i].filename \notin Taken(i)
                    /\ files'[saved[i].filename] = images[i]
                    /\ saved[i].size_bytes = Len(images[i])
                    /\ IF desired[i] \notin Taken(i)
                       THEN saved[i].filename = desired[i]
                       ELSE \E k \in 1..Cardinality(Taken(i)) :
                                saved[i].filename = Suffixed(desired[i], k)]_vars

\* C12 witness: an image was saved for the third time under the same
\* desired name; it got the suffix 2, and the first file holds another
\* image than the third.
C12_Witness ==
    /\ tool.stage = "done"
    /\ tool.result.kind = "saved"
    /\ tool.filenames = <<generate_filename_from_prompt(PromptA)>>
    /\ tool.result.images[1].filename = Suffixed(tool.filenames[1], 2)
    /\ DOMAIN files = {tool.filenames[1], Suffixed(tool.filenames[1], 1),
                       Suffixed(tool.filenames[1], 2)}
    /\ files[tool.filenames[1]] # files[Suffixed(tool.filenames[1], 2)]

====
